---- MODULE Spec2Model ----
(***************************************************************************)
(* Model of the drift/phonk synchronizer: PatternSynchronizer (the sync    *)
(* loop, its start and stop), AudioProcessor (the beat phase) and          *)
(* SimulationAutopilot (the commanded speed and steering).                 *)
(*                                                                         *)
(* Units: time in tenths of a second, speed in tenths of mph, steering in  *)
(* tenths, beat phase in thousandths of a beat.                            *)
(*                                                                         *)
(* Time: `now` is the wall clock.  Code between two blocking calls takes   *)
(* no time; only time.sleep and Thread.join let the clock advance, and a   *)
(* loop that iterates without sleeping samples at every clock reading.     *)
(* Steps of different threads at one instant interleave in every order.    *)
(***************************************************************************)
EXTENDS Integers, Sequences, FiniteSets, TLC

\* ---------------------------------------------------------------- bounds
MaxTime == 114
MaxThreads == 2
MaxStops == 2
MaxFires == 3

\* ------------------------------------------------------ program constants
JOIN_TIMEOUT == 20
IDLE_SLEEP == 10
BEAT_COOLDOWN == 2
SAFETY_SLEEP == 30
ON_BEAT_WINDOW == 100
DEFAULT_MAX_SPEED == 250
SECONDS_PER_MINUTE == 600
DETECTED_BPM == 150
SIM_UPDATE == 20
AUDIO_UPDATE == 10

Threads == 1..MaxThreads

TimingModes == {"beat", "auto", "manual"}

\* a YAML scalar: a float, or a string where a float was expected
Num(v) == [type |-> "float", val |-> v]
Str == [type |-> "str", val |-> 0]

Step(n, sp, st, d) == [name |-> n, speed |-> sp, steering |-> st, duration |-> d]

_create_basic_pattern ==
    [steps |-> << Step("Straight", Num(200), 0, 30),
                  Step("Left Drift", Num(150), -7, 20),
                  Step("Recover", Num(180), 3, 15),
                  Step("Right Drift", Num(150), 7, 20),
                  Step("Recover", Num(180), -3, 15) >>]

\* pattern files offered to load_pattern; "missing.yaml" does not exist
PatternPaths == {"missing.yaml", "empty.yaml", "slow.yaml", "typo.yaml"}

\* pattern files offered on the command line: also a file that is not YAML,
\* a mapping without `steps`, a YAML list, and a step with a negative speed
MainPatternPaths ==
    PatternPaths \cup {"garbled.yaml", "nosteps.yaml", "list.yaml", "reverse.yaml"}

path_exists(path) == path # "missing.yaml"

\* yaml.safe_load raises on this file
safe_load_raises(path) == path = "garbled.yaml"

\* yaml.safe_load of each existing file
safe_load(path) ==
    CASE path = "empty.yaml" -> [steps |-> << >>]
      [] path = "slow.yaml"  -> [steps |-> << Step("Hold", Num(300), 12, 80),
                                              Step("Swing", Num(100), -5, 80) >>]
      [] path = "typo.yaml"  -> [steps |-> << Step("Go", Num(100), 0, 3),
                                              Step("Oops", Str, 4, 3) >>]
      [] path = "nosteps.yaml" -> [name |-> "Untitled"]
      [] path = "list.yaml"    -> [items |-> << "Straight", "Left Drift" >>]
      [] path = "reverse.yaml" -> [steps |-> << Step("Back", Num(-50), 0, 30) >>]
      [] OTHER               -> [steps |-> << >>]

\* the document load_pattern stores in current_pattern
load_pattern_nofallback(path) == safe_load(path)
load_pattern(path) ==
    IF ~path_exists(path) THEN _create_basic_pattern ELSE safe_load(path)

\* what load_pattern returns: False when reading the file raised
load_pattern_returns(path) == ~path_exists(path) \/ ~safe_load_raises(path)

\* current_pattern.get(...) raises AttributeError on a document that is no mapping
get_raises(doc) == "items" \in DOMAIN doc

\* current_pattern.get('steps', [])
get_steps(doc) == IF "steps" \in DOMAIN doc THEN doc.steps ELSE << >>

NoPattern == [steps |-> << >>]

VARIABLES
    now,              \* time.time()
    pattern_path,     \* the pattern file the caller passes to its sessions
    pattern_timing,   \* PatternSynchronizer.pattern_timing
    active,           \* PatternSynchronizer.active
    stop_event,       \* PatternSynchronizer.stop_event is set
    sync_thread,      \* PatternSynchronizer.sync_thread (0 = None)
    current_pattern,  \* PatternSynchronizer.current_pattern
    playing,          \* AudioProcessor.playing
    current_bpm,      \* AudioProcessor.current_bpm (0 = None)
    ap_active,        \* SimulationAutopilot.active
    current_speed,    \* SimulationAutopilot.current_speed
    current_steering, \* SimulationAutopilot.current_steering
    cpc,              \* where the caller of the synchronizer is
    cwake,            \* when the caller's sleep or join timeout ends
    tpc,              \* where each loop thread is
    steps,            \* _sync_loop local `steps`, per thread
    step_index,       \* _sync_loop local `step_index`, per thread
    cursor,           \* the index last used to read `steps`, per thread
    twake,            \* when each loop thread's sleep ends
    calls,            \* history: autopilot calls made by each loop thread
    stops,            \* history: number of stop() calls begun
    stopped,          \* history: some stop() call has returned
    stop_seen,        \* history: per thread, how many stop() calls in a row it has seen return
    late,             \* history: per thread, stop_seen at its latest dispatch
    snaps,            \* history: state at each stop() return since session start
    left_window,      \* history: phase was >= window since the thread's last fire
    double_fire,      \* history: two fires without the phase leaving the window
    mpc,              \* where main() is ("none": the caller is not main)
    config,           \* what the configuration file says of development.simulation_only
    mode,             \* args.mode
    requested,        \* history: the --mode given on the command line
    exit_code,        \* what main() returned (-1 while it runs)
    raised,           \* the exception propagating in the main thread
    interrupted,      \* history: Ctrl-C was delivered during the session
    teardown,         \* history: the components the with statement has exited
    beat_phase        \* what get_current_beat_phase returned to its latest caller

mainVars == << mpc, config, mode, requested, exit_code, raised, interrupted, teardown >>

vars == << now, pattern_path, pattern_timing, beat_phase, mainVars, active, stop_event, sync_thread, current_pattern,
           playing, current_bpm, ap_active, current_speed, current_steering,
           cpc, cwake, tpc, steps, step_index, cursor, twake, calls, stops,
           stopped, stop_seen, late, snaps, left_window, double_fire >>

syncVars == << active, stop_event, sync_thread, current_pattern >>
audioVars == << playing, current_bpm >>
apVars == << ap_active, current_speed, current_steering >>
callerVars == << cpc, cwake >>
loopVars == << tpc, steps, step_index, cursor, twake, calls >>
stopHist == << stops, stopped, stop_seen, snaps >>
beatHist == << left_window, double_fire >>

\* ------------------------------------------------------------ AudioProcessor

beat_duration(bpm) == SECONDS_PER_MINUTE \div bpm

\* get_current_beat_phase at time t, in thousandths
get_current_beat_phase_elapsed(t, bpm, pl) ==
    IF bpm = 0 \/ ~pl THEN 0
    ELSE (t * 1000) \div beat_duration(bpm)
get_current_beat_phase(t, bpm, pl) ==
    IF bpm = 0 \/ ~pl THEN 0
    ELSE ((t % beat_duration(bpm)) * 1000) \div beat_duration(bpm)

\* ------------------------------------------------------- SimulationAutopilot

Min(a, b) == IF a < b THEN a ELSE b
Max(a, b) == IF a > b THEN a ELSE b

\* min(speed, max_speed) raises TypeError on a str
set_speed_raises(ap, speed) == ap /\ speed.type # "float"

set_speed_value(speed) == Min(speed.val, DEFAULT_MAX_SPEED)

set_steering_value(angle) == Max(-10, Min(10, angle))

\* ---------------------------------------------------------------- _sync_loop

\* daemon threads run until the process exits
ProcessRunning == mpc # "exited"

ThreadAlive(i) == i # 0 /\ tpc[i] \notin {"unborn", "done", "crashed"}

Fired(i) == Len(calls[i]) \div 2

LoopCondition == active /\ ~stop_event

NoSteps(s) == Len(s) = 0

\* where the empty branch leaves the thread: in time.sleep(1.0), then `continue`
IdleNext_break == "done"
IdleNext == "sleep"

StepPos_unwrapped(idx, n) == idx
StepPos(idx, n) == idx % n

NextIndex_skip(idx) == idx + 2
NextIndex(idx) == idx + 1

OnBeat_nonzero(phase) == 0 < phase /\ phase < ON_BEAT_WINDOW
OnBeat(phase) == phase < ON_BEAT_WINDOW

\* the branch of lines 237-244 an iteration takes
Fires_ungated(timing, phase) == timing \in {"beat", "auto"}
Fires(timing, phase) ==
    \/ timing = "beat" /\ OnBeat(phase)
    \/ timing = "auto"

SleepAfterFire_cooldown(timing, step) == BEAT_COOLDOWN
SleepAfterFire(timing, step) ==
    IF timing = "beat" THEN BEAT_COOLDOWN ELSE step.duration

Init ==
    /\ now = 0
    /\ pattern_path \in PatternPaths
    /\ pattern_timing \in TimingModes
    /\ active = FALSE
    /\ stop_event = FALSE
    /\ sync_thread = 0
    /\ current_pattern = NoPattern
    /\ playing = FALSE
    /\ current_bpm = 0
    /\ ap_active = FALSE
    /\ current_speed = 0
    /\ current_steering = 0
    /\ cpc = "idle"
    /\ cwake = 0
    /\ tpc = [i \in Threads |-> "unborn"]
    /\ steps = [i \in Threads |-> << >>]
    /\ step_index = [i \in Threads |-> 0]
    /\ cursor = [i \in Threads |-> 0]
    /\ twake = [i \in Threads |-> 0]
    /\ calls = [i \in Threads |-> << >>]
    /\ stops = 0
    /\ stopped = FALSE
    /\ stop_seen = [i \in Threads |-> 0]
    /\ late = [i \in Threads |-> 0]
    /\ snaps = << >>
    /\ left_window = [i \in Threads |-> TRUE]
    /\ double_fire = FALSE
    /\ mpc = "none"
    /\ config = "none"
    /\ mode = "none"
    /\ requested = "none"
    /\ exit_code = -1
    /\ raised = "none"
    /\ interrupted = FALSE
    /\ teardown = << >>
    /\ beat_phase = 0

\* lines 223-224
LoopStart(i) ==
    /\ tpc[i] = "start"
    /\ ProcessRunning
    /\ steps' = [steps EXCEPT ![i] = get_steps(current_pattern)]
    /\ step_index' = [step_index EXCEPT ![i] = 0]
    /\ tpc' = [tpc EXCEPT ![i] = "check"]
    /\ UNCHANGED << now, pattern_path, pattern_timing, beat_phase, mainVars, syncVars, audioVars, apVars, callerVars,
                    cursor, twake, calls, stopHist, late, beatHist >>

\* line 226
LoopCheck(i) ==
    /\ tpc[i] = "check"
    /\ ProcessRunning
    /\ tpc' = [tpc EXCEPT ![i] = IF LoopCondition THEN "body" ELSE "done"]
    /\ UNCHANGED << now, pattern_path, pattern_timing, beat_phase, mainVars, syncVars, audioVars, apVars, callerVars,
                    steps, step_index, cursor, twake, calls, stopHist, late,
                    beatHist >>

\* lines 227-229: nothing to run, idle
LoopIdle(i) ==
    /\ tpc[i] = "body"
    /\ ProcessRunning
    /\ NoSteps(steps[i])
    /\ twake' = [twake EXCEPT ![i] = now + IDLE_SLEEP]
    /\ tpc' = [tpc EXCEPT ![i] = IdleNext]
    /\ UNCHANGED << now, pattern_path, pattern_timing, beat_phase, mainVars, syncVars, audioVars, apVars, callerVars,
                    steps, step_index, cursor, calls, stopHist, late, beatHist >>

\* lines 232-237/241: read the step, sample the phase, take a firing branch
LoopFire(i) ==
    /\ tpc[i] = "body"
    /\ ProcessRunning
    /\ ~NoSteps(steps[i])
    /\ Fires(pattern_timing, get_current_beat_phase(now, current_bpm, playing))
    /\ Fired(i) < MaxFires
    /\ cursor' = [cursor EXCEPT ![i] = StepPos(step_index[i], Len(steps[i]))]
    /\ tpc' = [tpc EXCEPT ![i] = "exec_speed"]
    /\ left_window' = [left_window EXCEPT ![i] = FALSE]
    /\ double_fire' = (double_fire \/
                         (pattern_timing = "beat" /\ Fired(i) > 0 /\ ~left_window[i]))
    /\ UNCHANGED << now, pattern_path, pattern_timing, beat_phase, mainVars, syncVars, audioVars, apVars,
                    callerVars, steps, step_index, twake, calls, stopHist, late >>

\* lines 232-237/241, 246-247: neither branch taken, back to the loop head
LoopSkip(i) ==
    /\ tpc[i] = "body"
    /\ ProcessRunning
    /\ ~NoSteps(steps[i])
    /\ ~Fires(pattern_timing, get_current_beat_phase(now, current_bpm, playing))
    /\ cursor' = [cursor EXCEPT ![i] = StepPos(step_index[i], Len(steps[i]))]
    /\ tpc' = [tpc EXCEPT ![i] = "check"]
    /\ UNCHANGED << now, pattern_path, pattern_timing, beat_phase, mainVars, syncVars, audioVars, apVars,
                    callerVars, steps, step_index, twake, calls, stopHist, late,
                    beatHist >>

\* lines 256-259: autopilot.set_speed(speed); an exception ends the thread
ExecSetSpeed(i) ==
    /\ tpc[i] = "exec_speed"
    /\ ProcessRunning
    /\ LET step == steps[i][cursor[i] + 1] IN
        /\ calls' = [calls EXCEPT ![i] = Append(@, << "set_speed", step.speed >>)]
        /\ IF set_speed_raises(ap_active, step.speed)
           THEN /\ tpc' = [tpc EXCEPT ![i] = "crashed"]
                /\ UNCHANGED current_speed
           ELSE /\ tpc' = [tpc EXCEPT ![i] = "exec_steer"]
                /\ current_speed' = IF ap_active THEN set_speed_value(step.speed)
                                    ELSE current_speed
    /\ late' = [late EXCEPT ![i] = stop_seen[i]]
    /\ UNCHANGED << now, pattern_path, pattern_timing, beat_phase, mainVars, syncVars, audioVars, ap_active,
                    current_steering, callerVars, steps, step_index, cursor,
                    twake, stopHist, beatHist >>

\* line 260, then 239-240 or 243-244: set_steering, advance, start the sleep
ExecSetSteering(i) ==
    /\ tpc[i] = "exec_steer"
    /\ ProcessRunning
    /\ LET step == steps[i][cursor[i] + 1] IN
        /\ calls' = [calls EXCEPT ![i] = Append(@, << "set_steering", step.steering >>)]
        /\ current_steering' = IF ap_active THEN set_steering_value(step.steering)
                               ELSE current_steering
        /\ twake' = [twake EXCEPT ![i] = now + SleepAfterFire(pattern_timing, step)]
    /\ step_index' = [step_index EXCEPT ![i] = NextIndex(@)]
    /\ tpc' = [tpc EXCEPT ![i] = "sleep"]
    /\ late' = [late EXCEPT ![i] = stop_seen[i]]
    /\ UNCHANGED << now, pattern_path, pattern_timing, beat_phase, mainVars, syncVars, audioVars, ap_active,
                    current_speed, callerVars, steps, cursor, stopHist, beatHist >>

\* time.sleep returns (lines 228, 240, 244)
LoopWake(i) ==
    /\ tpc[i] = "sleep"
    /\ ProcessRunning
    /\ now >= twake[i]
    /\ twake' = [twake EXCEPT ![i] = 0]
    /\ tpc' = [tpc EXCEPT ![i] = "check"]
    /\ UNCHANGED << now, pattern_path, pattern_timing, beat_phase, mainVars, syncVars, audioVars, apVars,
                    callerVars, steps, step_index, cursor, calls, stopHist, late,
                    beatHist >>

\* ------------------------------------------------ the caller: session start

NewThread == CHOOSE i \in Threads : tpc[i] = "unborn" /\ \A j \in Threads : j < i => tpc[j] # "unborn"

\* the phase signal at (t, bpm, pl) is outside the firing window
OutsideWindow(t, bpm, pl) == ~OnBeat(get_current_beat_phase(t, bpm, pl))

\* start_drift_session, lines 83-89: load the pattern and return if that
\* failed, else start the 3 s warning pause
DriftSessionBegins ==
    /\ IF load_pattern_returns(pattern_path)
       THEN /\ current_pattern' = load_pattern(pattern_path)
            /\ cwake' = now + SAFETY_SLEEP
            /\ cpc' = "ds_sleep"
       ELSE /\ cpc' = "idle"
            /\ UNCHANGED << current_pattern, cwake >>
    /\ snaps' = << >>

\* start_drift_session called on the synchronizer
StartDriftSession ==
    /\ cpc = "idle"
    /\ \E i \in Threads : tpc[i] = "unborn"
    /\ DriftSessionBegins
    /\ UNCHANGED << now, pattern_path, pattern_timing, beat_phase, mainVars, active, stop_event, sync_thread, audioVars,
                    apVars, loopVars, stops, stopped, stop_seen, late, beatHist >>

\* lines 92-98: autopilot.start(); audio.start(); current_pattern.get raises
\* on a document that is no mapping, else audio.load_track(music_file)
\* detects a tempo; audio.play()
DriftStartComponents ==
    /\ cpc = "ds_sleep"
    /\ now >= cwake
    /\ ap_active' = TRUE
    /\ cwake' = 0
    /\ IF get_raises(current_pattern)
       THEN /\ raised' = "Exception"
            /\ cpc' = "idle"
            /\ UNCHANGED << audioVars, left_window >>
       ELSE /\ current_bpm' = DETECTED_BPM
            /\ playing' = TRUE
            /\ cpc' = "sl_active"
            /\ left_window' = [i \in Threads |->
                                 left_window[i] \/ OutsideWindow(now, DETECTED_BPM, TRUE)]
            /\ UNCHANGED raised
    /\ UNCHANGED << now, pattern_path, pattern_timing, beat_phase, mpc, config, mode, requested,
                    exit_code, interrupted, teardown, syncVars, current_speed,
                    current_steering, loopVars, stopHist, late, double_fire >>

\* _start_sync_loop, line 175
SyncSetActive ==
    /\ cpc = "sl_active"
    /\ active' = TRUE
    /\ cpc' = "sl_clear"
    /\ UNCHANGED << now, pattern_path, pattern_timing, beat_phase, mainVars, stop_event, sync_thread, current_pattern,
                    audioVars, apVars, cwake, loopVars, stopHist, late, beatHist >>

\* line 176
SyncClearEvent ==
    /\ cpc = "sl_clear"
    /\ stop_event' = FALSE
    /\ cpc' = "sl_spawn"
    /\ UNCHANGED << now, pattern_path, pattern_timing, beat_phase, mainVars, active, sync_thread, current_pattern,
                    audioVars, apVars, cwake, loopVars, stopHist, late, beatHist >>

\* lines 178-183: a new thread replaces sync_thread and is started
SyncSpawn ==
    /\ cpc = "sl_spawn"
    /\ sync_thread' = NewThread
    /\ tpc' = [tpc EXCEPT ![NewThread] = "start"]
    /\ cpc' = "sl_join"
    /\ UNCHANGED << now, pattern_path, pattern_timing, beat_phase, mainVars, active, stop_event, current_pattern,
                    audioVars, apVars, cwake, steps, step_index, cursor, twake,
                    calls, stopHist, late, beatHist >>

\* line 187: join() returns because the thread has ended
SyncJoinReturn ==
    /\ cpc = "sl_join"
    /\ ~ThreadAlive(sync_thread)
    /\ cpc' = "idle"
    /\ UNCHANGED << now, pattern_path, pattern_timing, beat_phase, mainVars, syncVars, audioVars, apVars, cwake,
                    loopVars, stopHist, late, beatHist >>

\* lines 188-190: Ctrl-C during join(), the handler calls stop()
KeyboardInterrupt ==
    /\ cpc = "sl_join"
    /\ stops < MaxStops
    /\ stops' = stops + 1
    /\ cpc' = "st_active"
    /\ UNCHANGED << now, pattern_path, pattern_timing, beat_phase, mainVars, syncVars, audioVars, apVars, cwake,
                    loopVars, stopped, stop_seen, snaps, late, beatHist >>

\* ----------------------------------------------------------------- stop()

\* a call of stop() begins
StopBegins ==
    /\ stops' = stops + 1
    /\ cpc' = "st_active"

\* stop() called from outside a session (__exit__, lines 42-44, or directly)
StopCall ==
    /\ cpc = "idle"
    /\ stops < MaxStops
    /\ stops' = stops + 1
    /\ cpc' = "st_active"
    /\ UNCHANGED << now, pattern_path, pattern_timing, beat_phase, mainVars, syncVars, audioVars, apVars, cwake,
                    loopVars, stopped, stop_seen, snaps, late, beatHist >>

\* line 161
StopSetActive ==
    /\ cpc = "st_active"
    /\ active' = FALSE
    /\ cpc' = "st_event"
    /\ UNCHANGED << now, pattern_path, pattern_timing, beat_phase, mainVars, stop_event, sync_thread, current_pattern,
                    audioVars, apVars, cwake, loopVars, stopHist, late, beatHist >>

\* line 162
StopSetEvent ==
    /\ cpc = "st_event"
    /\ stop_event' = TRUE
    /\ cpc' = "st_check"
    /\ UNCHANGED << now, pattern_path, pattern_timing, beat_phase, mainVars, active, sync_thread, current_pattern,
                    audioVars, apVars, cwake, loopVars, stopHist, late, beatHist >>

\* what a returning stop() leaves behind
StopReturns ==
    /\ cpc' = "idle"
    /\ stopped' = TRUE
    /\ stop_seen' = [i \in Threads |->
                        IF tpc[i] = "unborn" THEN 0 ELSE Max(stop_seen[i], Len(snaps) + 1)]
    /\ snaps' = Append(snaps, [active |-> active, stop_event |-> stop_event,
                               alive |-> ThreadAlive(sync_thread)])

\* line 164: no live thread, stop() returns at once
StopNoJoin ==
    /\ cpc = "st_check"
    /\ ~ThreadAlive(sync_thread)
    /\ StopReturns
    /\ UNCHANGED << now, pattern_path, pattern_timing, beat_phase, mainVars, syncVars, audioVars, apVars, cwake,
                    loopVars, stops, late, beatHist >>

\* lines 164-165: a live thread, join it for at most 2.0 s
StopJoin ==
    /\ cpc = "st_check"
    /\ ThreadAlive(sync_thread)
    /\ cwake' = now + JOIN_TIMEOUT
    /\ cpc' = "st_join"
    /\ UNCHANGED << now, pattern_path, pattern_timing, beat_phase, mainVars, syncVars, audioVars, apVars, loopVars,
                    stopHist, late, beatHist >>

\* line 165: join returns, the thread has ended or the timeout has passed
StopJoinReturn ==
    /\ cpc = "st_join"
    /\ ~ThreadAlive(sync_thread) \/ now >= cwake
    /\ StopReturns
    /\ cwake' = 0
    /\ UNCHANGED << now, pattern_path, pattern_timing, beat_phase, mainVars, syncVars, audioVars, apVars,
                    loopVars, stops, late, beatHist >>

\* AudioProcessor.pause, lines 94-97; the phase gates nothing outside 'beat' mode
AudioPause ==
    /\ playing
    /\ pattern_timing = "beat"
    /\ cpc = "sl_join"
    /\ playing' = FALSE
    /\ UNCHANGED << now, pattern_path, pattern_timing, beat_phase, mainVars, syncVars, current_bpm, apVars, callerVars,
                    loopVars, stopHist, late, beatHist >>

\* AudioProcessor.play, lines 86-92: playback resumes
AudioPlay ==
    /\ ~playing
    /\ current_bpm # 0
    /\ pattern_timing = "beat"
    /\ cpc = "sl_join"
    /\ playing' = TRUE
    /\ left_window' = [i \in Threads |->
                         left_window[i] \/ OutsideWindow(now, current_bpm, TRUE)]
    /\ UNCHANGED << now, pattern_path, pattern_timing, beat_phase, mainVars, syncVars, current_bpm, apVars,
                    callerVars, loopVars, stopHist, late, double_fire >>

\* ------------------------------------------------------------------- time

\* a thread at the head of a loop whose next iteration neither sleeps nor fires:
\* it spins, sampling the phase at every reading of the clock
Spinning(i) ==
    /\ tpc[i] = "check"
    /\ LoopCondition
    /\ ~NoSteps(steps[i])
    /\ ~Fires(pattern_timing, get_current_beat_phase(now, current_bpm, playing))

\* a thread that has ended, is asleep, or spins
ThreadLetsTimePass(i) ==
    \/ tpc[i] \in {"unborn", "done", "crashed"}
    \/ tpc[i] = "sleep" /\ twake[i] > now
    \/ Spinning(i)

\* an idle caller with no loop thread left waits for nothing: the next call
\* comes at the same reading of the clock
CallerLetsTimePass ==
    \/ cpc = "idle" /\ \E i \in Threads : ThreadAlive(i)
    \/ cpc = "ds_sleep" /\ cwake > now
    \/ cpc = "sl_join"
    \/ cpc = "st_join" /\ cwake > now /\ ThreadAlive(sync_thread)
    \/ cpc \in {"sim_sleep", "au_sleep"} /\ cwake > now

\* main() waits only inside a call on the synchronizer
MainLetsTimePass ==
    \/ mpc = "none"
    \/ mpc \in {"in_session", "m_exit"} /\ cpc # "idle"

Tick ==
    /\ now < MaxTime
    /\ \A i \in Threads : ThreadLetsTimePass(i)
    /\ CallerLetsTimePass
    /\ MainLetsTimePass
    /\ now' = now + 1
    /\ left_window' = [i \in Threads |->
                         left_window[i] \/ OutsideWindow(now + 1, current_bpm, playing)]
    /\ UNCHANGED << pattern_path, pattern_timing, beat_phase, mainVars, syncVars, audioVars, apVars, callerVars,
                    loopVars, stopHist, late, double_fire >>

Next ==
    \/ \E i \in Threads : LoopStart(i)
    \/ \E i \in Threads : LoopCheck(i)
    \/ \E i \in Threads : LoopIdle(i)
    \/ \E i \in Threads : LoopFire(i)
    \/ \E i \in Threads : LoopSkip(i)
    \/ \E i \in Threads : ExecSetSpeed(i)
    \/ \E i \in Threads : ExecSetSteering(i)
    \/ \E i \in Threads : LoopWake(i)
    \/ StartDriftSession
    \/ DriftStartComponents
    \/ SyncSetActive
    \/ SyncClearEvent
    \/ SyncSpawn
    \/ SyncJoinReturn
    \/ KeyboardInterrupt
    \/ StopCall
    \/ StopSetActive
    \/ StopSetEvent
    \/ StopNoJoin
    \/ StopJoin
    \/ StopJoinReturn
    \/ AudioPause
    \/ AudioPlay
    \/ Tick

Spec == Init /\ [][Next]_vars

\* ==================================================================== main()

\* what the configuration file holds for development.simulation_only;
\* "no_file": the configuration file does not exist
Configs == {"no_file", "true", "absent", "false"}

Modes == {"drift", "simulation", "audio-only"}

\* config.get("development.simulation_only", True)
simulation_only(cfg) == cfg # "false"

\* main.py lines 67-70: the safety check
EffectiveMode_unforced(m, cfg) == m
EffectiveMode(m, cfg) ==
    IF m # "simulation" /\ simulation_only(cfg) THEN "simulation" ELSE m

\* `with autopilot, audio, synchronizer:` exits its items last-entered first
WithItems == << "autopilot", "audio", "synchronizer" >>

ExitAt_fifo(k) == WithItems[k]
ExitAt(k) == WithItems[Len(WithItems) + 1 - k]

\* main.py lines 90-98: the value main() returns
ExitStatus_strict(exc) == IF exc = "none" THEN 0 ELSE 1
ExitStatus(exc) == IF exc = "Exception" THEN 1 ELSE 0

MainInit ==
    /\ now = 0
    /\ pattern_path \in MainPatternPaths
    /\ pattern_timing \in TimingModes
    /\ active = FALSE
    /\ stop_event = FALSE
    /\ sync_thread = 0
    /\ current_pattern = NoPattern
    /\ playing = FALSE
    /\ current_bpm = 0
    /\ ap_active = FALSE
    /\ current_speed = 0
    /\ current_steering = 0
    /\ cpc = "idle"
    /\ cwake = 0
    /\ tpc = [i \in Threads |-> "unborn"]
    /\ steps = [i \in Threads |-> << >>]
    /\ step_index = [i \in Threads |-> 0]
    /\ cursor = [i \in Threads |-> 0]
    /\ twake = [i \in Threads |-> 0]
    /\ calls = [i \in Threads |-> << >>]
    /\ stops = 0
    /\ stopped = FALSE
    /\ stop_seen = [i \in Threads |-> 0]
    /\ late = [i \in Threads |-> 0]
    /\ snaps = << >>
    /\ left_window = [i \in Threads |-> TRUE]
    /\ double_fire = FALSE
    /\ mpc = "m_config"
    /\ config \in Configs
    /\ mode \in Modes
    /\ requested = mode
    /\ exit_code = -1
    /\ raised = "none"
    /\ interrupted = FALSE
    /\ teardown = << >>
    /\ beat_phase = 0

\* lines 51-65: ConfigManager raises when the file is missing, the process
\* ends with status 1
MainLoadConfig ==
    /\ mpc = "m_config"
    /\ IF config = "no_file"
       THEN /\ exit_code' = 1
            /\ mpc' = "exited"
       ELSE /\ mpc' = "m_safety"
            /\ UNCHANGED exit_code
    /\ UNCHANGED << now, pattern_path, pattern_timing, beat_phase, config, mode, requested, raised,
                    interrupted, teardown, syncVars, audioVars, apVars, callerVars,
                    loopVars, stopHist, late, beatHist >>

\* lines 67-70
MainSafetyCheck ==
    /\ mpc = "m_safety"
    /\ mode' = EffectiveMode(mode, config)
    /\ mpc' = "m_pattern"
    /\ UNCHANGED << now, pattern_path, pattern_timing, beat_phase, config, requested, exit_code,
                    raised, interrupted, teardown, syncVars, audioVars, apVars,
                    callerVars, loopVars, stopHist, late, beatHist >>

\* lines 72-76: a pattern file that does not exist ends main() with 1
MainCheckPattern ==
    /\ mpc = "m_pattern"
    /\ IF ~path_exists(pattern_path)
       THEN /\ exit_code' = 1
            /\ mpc' = "exited"
       ELSE /\ mpc' = "m_with"
            /\ UNCHANGED exit_code
    /\ UNCHANGED << now, pattern_path, pattern_timing, beat_phase, config, mode, requested, raised,
                    interrupted, teardown, syncVars, audioVars, apVars, callerVars,
                    loopVars, stopHist, late, beatHist >>

\* lines 79-82: start_drift_session
MainDrift ==
    /\ mpc = "m_with"
    /\ mode = "drift"
    /\ DriftSessionBegins
    /\ mpc' = "in_session"
    /\ UNCHANGED << now, pattern_path, pattern_timing, beat_phase, config, mode, requested, exit_code,
                    raised, interrupted, teardown, active, stop_event, sync_thread,
                    audioVars, apVars, loopVars, stops, stopped, stop_seen, late,
                    beatHist >>

\* start_simulation_session, lines 112-125, and _start_simulation_loop up to
\* its first sleep, lines 198-208
MainSimulation ==
    /\ mpc = "m_with"
    /\ mode = "simulation"
    /\ mpc' = "in_session"
    /\ IF ~load_pattern_returns(pattern_path)
       THEN UNCHANGED << current_pattern, audioVars, active, callerVars, raised,
                         left_window >>
       ELSE /\ current_pattern' = load_pattern(pattern_path)
            /\ IF get_raises(load_pattern(pattern_path))
               THEN /\ raised' = "Exception"
                    /\ UNCHANGED << audioVars, active, callerVars, left_window >>
               ELSE /\ current_bpm' = DETECTED_BPM
                    /\ playing' = TRUE
                    /\ active' = TRUE
                    /\ cwake' = now + SIM_UPDATE
                    /\ cpc' = "sim_sleep"
                    /\ left_window' = [i \in Threads |->
                          left_window[i] \/ OutsideWindow(now, DETECTED_BPM, TRUE)]
                    /\ UNCHANGED raised
    /\ UNCHANGED << now, pattern_path, pattern_timing, beat_phase, config, mode, requested, exit_code,
                    interrupted, teardown, stop_event, sync_thread, apVars, loopVars,
                    stopHist, late, double_fire >>

\* _start_simulation_loop, lines 201-208: the next round of the loop
SimulationWake ==
    /\ cpc = "sim_sleep"
    /\ now >= cwake
    /\ IF active
       THEN /\ cwake' = now + SIM_UPDATE
            /\ UNCHANGED cpc
       ELSE /\ cwake' = 0
            /\ cpc' = "idle"
    /\ UNCHANGED << now, pattern_path, pattern_timing, beat_phase, mainVars, syncVars, audioVars,
                    apVars, loopVars, stopHist, late, beatHist >>

\* start_audio_session, lines 136-151
MainAudioOnly ==
    /\ mpc = "m_with"
    /\ mode = "audio-only"
    /\ mpc' = "in_session"
    /\ IF ~load_pattern_returns(pattern_path)
       THEN UNCHANGED << current_pattern, audioVars, callerVars, raised, left_window >>
       ELSE /\ current_pattern' = load_pattern(pattern_path)
            /\ IF get_raises(load_pattern(pattern_path))
               THEN /\ raised' = "Exception"
                    /\ UNCHANGED << audioVars, callerVars, left_window >>
               ELSE /\ current_bpm' = DETECTED_BPM
                    /\ playing' = TRUE
                    /\ cwake' = now + AUDIO_UPDATE
                    /\ cpc' = "au_sleep"
                    /\ left_window' = [i \in Threads |->
                          left_window[i] \/ OutsideWindow(now, DETECTED_BPM, TRUE)]
                    /\ UNCHANGED raised
    /\ UNCHANGED << now, pattern_path, pattern_timing, beat_phase, config, mode, requested, exit_code,
                    interrupted, teardown, active, stop_event, sync_thread, apVars,
                    loopVars, stopHist, late, double_fire >>

\* lines 150-154: the next round of the playback loop
AudioWake ==
    /\ cpc = "au_sleep"
    /\ now >= cwake
    /\ cwake' = now + AUDIO_UPDATE
    /\ UNCHANGED << now, pattern_path, pattern_timing, beat_phase, mainVars, syncVars, audioVars,
                    apVars, cpc, loopVars, stopHist, late, beatHist >>

\* Ctrl-C while _start_sync_loop waits in join(): lines 188-190 call stop()
InterruptInJoin ==
    /\ mpc = "in_session"
    /\ cpc = "sl_join"
    /\ interrupted' = TRUE
    /\ StopBegins
    /\ UNCHANGED << now, pattern_path, pattern_timing, beat_phase, mpc, config, mode, requested,
                    exit_code, raised, teardown, syncVars, audioVars, apVars, cwake,
                    loopVars, stopped, stop_seen, snaps, late, beatHist >>

\* Ctrl-C in the simulation or playback loop: lines 210-211, 155-156 return
InterruptInLoop ==
    /\ mpc = "in_session"
    /\ cpc \in {"sim_sleep", "au_sleep"}
    /\ interrupted' = TRUE
    /\ cpc' = "idle"
    /\ cwake' = 0
    /\ UNCHANGED << now, pattern_path, pattern_timing, beat_phase, mpc, config, mode, requested,
                    exit_code, raised, teardown, syncVars, audioVars, apVars,
                    loopVars, stopHist, late, beatHist >>

\* Ctrl-C in start_drift_session before the try of line 186 (the thread, if
\* started, has not run yet): no handler, KeyboardInterrupt leaves the
\* session function
InterruptPropagates ==
    /\ mpc = "in_session"
    /\ \/ cpc \in {"ds_sleep", "sl_active", "sl_clear", "sl_spawn"}
       \/ cpc = "sl_join" /\ tpc[sync_thread] = "start"
    /\ interrupted' = TRUE
    /\ raised' = "KeyboardInterrupt"
    /\ cpc' = "idle"
    /\ cwake' = 0
    /\ UNCHANGED << now, pattern_path, pattern_timing, beat_phase, mpc, config, mode, requested,
                    exit_code, teardown, syncVars, audioVars, apVars, loopVars,
                    stopHist, late, beatHist >>

\* line 88: the session function has returned or raised, the with block ends
MainSessionEnds ==
    /\ mpc = "in_session"
    /\ cpc = "idle"
    /\ mpc' = "m_exit"
    /\ UNCHANGED << now, pattern_path, pattern_timing, beat_phase, config, mode, requested, exit_code,
                    raised, interrupted, teardown, syncVars, audioVars, apVars,
                    callerVars, loopVars, stopHist, late, beatHist >>

\* the item of the with statement whose __exit__ runs next
ExitsNext(item) ==
    /\ mpc = "m_exit"
    /\ cpc = "idle"
    /\ Len(teardown) < Len(WithItems)
    /\ ExitAt(Len(teardown) + 1) = item
    /\ teardown' = Append(teardown, item)

\* PatternSynchronizer.__exit__, lines 42-44: stop()
MainExitSynchronizer ==
    /\ ExitsNext("synchronizer")
    /\ StopBegins
    /\ UNCHANGED << now, pattern_path, pattern_timing, beat_phase, mpc, config, mode, requested,
                    exit_code, raised, interrupted, syncVars, audioVars, apVars, cwake,
                    loopVars, stopped, stop_seen, snaps, late, beatHist >>

\* AudioProcessor.__exit__: stop(), processor.py lines 57-64
MainExitAudio ==
    /\ ExitsNext("audio")
    /\ playing' = FALSE
    /\ UNCHANGED << now, pattern_path, pattern_timing, beat_phase, mpc, config, mode, requested,
                    exit_code, raised, interrupted, syncVars, current_bpm, apVars,
                    callerVars, loopVars, stopHist, late, beatHist >>

\* AutopilotController.__exit__: stop(), controller.py lines 50-55, 105-117
MainExitAutopilot ==
    /\ ExitsNext("autopilot")
    /\ ap_active' = FALSE
    /\ current_speed' = 0
    /\ current_steering' = 0
    /\ UNCHANGED << now, pattern_path, pattern_timing, beat_phase, mpc, config, mode, requested,
                    exit_code, raised, interrupted, syncVars, audioVars, callerVars,
                    loopVars, stopHist, late, beatHist >>

\* lines 90-98: main() returns
MainReturn ==
    /\ mpc = "m_exit"
    /\ cpc = "idle"
    /\ Len(teardown) = Len(WithItems)
    /\ exit_code' = ExitStatus(raised)
    /\ mpc' = "exited"
    /\ UNCHANGED << now, pattern_path, pattern_timing, beat_phase, config, mode, requested, raised,
                    interrupted, teardown, syncVars, audioVars, apVars, callerVars,
                    loopVars, stopHist, late, beatHist >>

MainNext ==
    \/ \E i \in Threads : LoopStart(i)
    \/ \E i \in Threads : LoopCheck(i)
    \/ \E i \in Threads : LoopIdle(i)
    \/ \E i \in Threads : LoopFire(i)
    \/ \E i \in Threads : LoopSkip(i)
    \/ \E i \in Threads : ExecSetSpeed(i)
    \/ \E i \in Threads : ExecSetSteering(i)
    \/ \E i \in Threads : LoopWake(i)
    \/ MainLoadConfig
    \/ MainSafetyCheck
    \/ MainCheckPattern
    \/ MainDrift
    \/ MainSimulation
    \/ MainAudioOnly
    \/ DriftStartComponents
    \/ SyncSetActive
    \/ SyncClearEvent
    \/ SyncSpawn
    \/ SyncJoinReturn
    \/ SimulationWake
    \/ AudioWake
    \/ InterruptInJoin
    \/ InterruptInLoop
    \/ InterruptPropagates
    \/ MainSessionEnds
    \/ MainExitSynchronizer
    \/ StopSetActive
    \/ StopSetEvent
    \/ StopNoJoin
    \/ StopJoin
    \/ StopJoinReturn
    \/ MainExitAudio
    \/ MainExitAutopilot
    \/ MainReturn
    \/ Tick

SpecMain == MainInit /\ [][MainNext]_vars

\* ========================================================== AudioProcessor

\* tempos a loaded track may have, in beats per minute
Tempos == {60, 100, 120, 150, 200, 300, 600}

BeatInit ==
    /\ Init
    /\ pattern_path = "missing.yaml"
    /\ pattern_timing = "auto"

\* load_track, processor.py lines 66-84: a tempo is detected
BeatLoadTrack ==
    /\ \E bpm \in Tempos : current_bpm' = bpm
    /\ UNCHANGED << now, pattern_path, pattern_timing, beat_phase, mainVars, syncVars,
                    playing, apVars, callerVars, loopVars, stopHist, late, beatHist >>

\* play, lines 86-92: only with a track loaded
BeatPlay ==
    /\ current_bpm # 0
    /\ playing' = TRUE
    /\ UNCHANGED << now, pattern_path, pattern_timing, beat_phase, mainVars, syncVars,
                    current_bpm, apVars, callerVars, loopVars, stopHist, late, beatHist >>

\* pause, lines 94-97
BeatPause ==
    /\ playing' = FALSE
    /\ UNCHANGED << now, pattern_path, pattern_timing, beat_phase, mainVars, syncVars,
                    current_bpm, apVars, callerVars, loopVars, stopHist, late, beatHist >>

\* get_current_beat_phase, lines 108-123, called at the current time
BeatSample ==
    /\ beat_phase' = get_current_beat_phase(now, current_bpm, playing)
    /\ UNCHANGED << now, pattern_path, pattern_timing, mainVars, syncVars, audioVars,
                    apVars, callerVars, loopVars, stopHist, late, beatHist >>

\* time.time() moves on
BeatTick ==
    /\ now < MaxTime
    /\ now' = now + 1
    /\ UNCHANGED << pattern_path, pattern_timing, beat_phase, mainVars, syncVars, audioVars,
                    apVars, callerVars, loopVars, stopHist, late, beatHist >>

BeatNext ==
    \/ BeatLoadTrack
    \/ BeatPlay
    \/ BeatPause
    \/ BeatSample
    \/ BeatTick

SpecBeat == BeatInit /\ [][BeatNext]_vars

\* ====================================================== SimulationAutopilot
\* set_speed, set_steering and stop statement by statement: a loop thread
\* dispatching steps while another thread starts and stops the autopilot

ApInit ==
    /\ Init
    /\ pattern_path = "missing.yaml"
    /\ pattern_timing = "auto"

\* start_drift_session has started the autopilot (synchronizer.py line 92);
\* _start_sync_loop, lines 178-183, starts the one loop thread
ApSpawn ==
    /\ sync_thread = 0
    /\ ap_active
    /\ sync_thread' = NewThread
    /\ tpc' = [tpc EXCEPT ![NewThread] = "check"]
    /\ steps' = [steps EXCEPT ![NewThread] = load_pattern(pattern_path).steps]
    /\ UNCHANGED << now, pattern_path, pattern_timing, beat_phase, mainVars, active, stop_event,
                    current_pattern, audioVars, apVars, callerVars, step_index, cursor,
                    twake, calls, stopHist, late, beatHist >>

\* synchronizer.py line 232 and lines 251-254: the step to dispatch
ApDispatch(i) ==
    /\ tpc[i] = "check"
    /\ Fired(i) < MaxFires
    /\ cursor' = [cursor EXCEPT ![i] = StepPos(step_index[i], Len(steps[i]))]
    /\ tpc' = [tpc EXCEPT ![i] = "exec_speed"]
    /\ UNCHANGED << now, pattern_path, pattern_timing, beat_phase, mainVars, syncVars, audioVars,
                    apVars, callerVars, steps, step_index, twake, calls, stopHist, late,
                    beatHist >>

\* set_speed, controller.py line 59: if self.active
ApSetSpeedTest(i) ==
    /\ tpc[i] = "exec_speed"
    /\ calls' = [calls EXCEPT ![i] = Append(@, << "set_speed", steps[i][cursor[i] + 1].speed >>)]
    /\ tpc' = [tpc EXCEPT ![i] = IF ap_active THEN "speed_store" ELSE "exec_steer"]
    /\ UNCHANGED << now, pattern_path, pattern_timing, beat_phase, mainVars, syncVars, audioVars,
                    apVars, callerVars, steps, step_index, cursor, twake, stopHist, late,
                    beatHist >>

\* set_speed, lines 60-61: self.current_speed = min(speed, max_speed)
ApSetSpeedStore(i) ==
    /\ tpc[i] = "speed_store"
    /\ current_speed' = set_speed_value(steps[i][cursor[i] + 1].speed)
    /\ tpc' = [tpc EXCEPT ![i] = "exec_steer"]
    /\ UNCHANGED << now, pattern_path, pattern_timing, beat_phase, mainVars, syncVars, audioVars,
                    ap_active, current_steering, callerVars, steps, step_index, cursor,
                    twake, calls, stopHist, late, beatHist >>

\* set_steering, line 66: if self.active
ApSetSteeringTest(i) ==
    /\ tpc[i] = "exec_steer"
    /\ calls' = [calls EXCEPT ![i] = Append(@, << "set_steering", steps[i][cursor[i] + 1].steering >>)]
    /\ tpc' = [tpc EXCEPT ![i] = IF ap_active THEN "steer_store" ELSE "check"]
    /\ step_index' = [step_index EXCEPT ![i] = IF ap_active THEN @ ELSE NextIndex(@)]
    /\ UNCHANGED << now, pattern_path, pattern_timing, beat_phase, mainVars, syncVars, audioVars,
                    apVars, callerVars, steps, cursor, twake, stopHist, late, beatHist >>

\* set_steering, line 68: self.current_steering = max(-1.0, min(1.0, angle))
ApSetSteeringStore(i) ==
    /\ tpc[i] = "steer_store"
    /\ current_steering' = set_steering_value(steps[i][cursor[i] + 1].steering)
    /\ tpc' = [tpc EXCEPT ![i] = "check"]
    /\ step_index' = [step_index EXCEPT ![i] = NextIndex(@)]
    /\ UNCHANGED << now, pattern_path, pattern_timing, beat_phase, mainVars, syncVars, audioVars,
                    ap_active, current_speed, callerVars, steps, cursor, twake, calls,
                    stopHist, late, beatHist >>

\* SimulationAutopilot.start, lines 45-48
ApStart ==
    /\ cpc = "idle"
    /\ ~ap_active
    /\ ap_active' = TRUE
    /\ UNCHANGED << now, pattern_path, pattern_timing, beat_phase, mainVars, syncVars, audioVars,
                    current_speed, current_steering, callerVars, loopVars, stopHist, late,
                    beatHist >>

\* SimulationAutopilot.stop, line 53: self.active = False
ApStopActive ==
    /\ cpc = "idle"
    /\ ap_active' = FALSE
    /\ cpc' = "ap_speed"
    /\ UNCHANGED << now, pattern_path, pattern_timing, beat_phase, mainVars, syncVars, audioVars,
                    current_speed, current_steering, cwake, loopVars, stopHist, late,
                    beatHist >>

\* line 54: self.current_speed = 0.0
ApStopSpeed ==
    /\ cpc = "ap_speed"
    /\ current_speed' = 0
    /\ cpc' = "ap_steering"
    /\ UNCHANGED << now, pattern_path, pattern_timing, beat_phase, mainVars, syncVars, audioVars,
                    ap_active, current_steering, cwake, loopVars, stopHist, late,
                    beatHist >>

\* line 55: self.current_steering = 0.0, and stop returns
ApStopSteering ==
    /\ cpc = "ap_steering"
    /\ current_steering' = 0
    /\ cpc' = "idle"
    /\ UNCHANGED << now, pattern_path, pattern_timing, beat_phase, mainVars, syncVars, audioVars,
                    ap_active, current_speed, cwake, loopVars, stopHist, late, beatHist >>

ApNext ==
    \/ ApSpawn
    \/ \E i \in Threads :
          \/ ApDispatch(i)
          \/ ApSetSpeedTest(i)
          \/ ApSetSpeedStore(i)
          \/ ApSetSteeringTest(i)
          \/ ApSetSteeringStore(i)
    \/ ApStart
    \/ ApStopActive
    \/ ApStopSpeed
    \/ ApStopSteering

SpecAp == ApInit /\ [][ApNext]_vars

\* ================================================================== claims

CallsOfStep(step) == << << "set_speed", step.speed >>, << "set_steering", step.steering >> >>

InExecuteStep(i) == tpc[i] \in {"exec_speed", "exec_steer"}

\* C1: once a stop() call has returned, no loop thread that existed at that
\* return dispatches set_speed or set_steering again.
C1_NoCommandAfterStop == \A i \in Threads : late[i] = 0

\* C2: when stop() returns, the loop thread it was asked to stop has terminated.
C2_StopReturnsAfterLoopEnded == \A k \in 1..Len(snaps) : ~snaps[k].alive

\* C3: stop() twice in a row ends as stop() once: after each return the active
\* flag is clear and the stop event set, a thread found ended after the first
\* call is not alive after the second, and no loop thread that saw the second
\* call return dispatches a command afterwards.
C3_StopIdempotent ==
    /\ \A k \in 1..Len(snaps) : ~snaps[k].active /\ snaps[k].stop_event
    /\ \A k \in 2..Len(snaps) : snaps[k].alive => snaps[k - 1].alive
    /\ \A i \in Threads : late[i] < 2

\* C4: in 'beat' mode a loop never fires twice while the phase signal stays
\* inside one firing window (phase below 0.1).
C4_OneFirePerWindow == ~double_fire

\* C5: for a loop over N > 0 steps that has fired k times, the index it reads
\* the step list with is in 0..N-1, the step it is about to fire is k mod N,
\* between iterations its step_index is k modulo N, and it ends only after a
\* stop() call, never because it reached the last step.
C5_CursorWraps ==
    \A i \in Threads :
        Len(steps[i]) > 0 =>
            /\ cursor[i] \in 0..(Len(steps[i]) - 1)
            /\ tpc[i] \in {"exec_speed", "exec_steer"}
                  => cursor[i] = Fired(i) % Len(steps[i])
            /\ tpc[i] \in {"check", "body", "sleep", "done"}
                  => step_index[i] % Len(steps[i]) = Fired(i) % Len(steps[i])
            /\ tpc[i] = "done" => stops > 0

\* a loop has fired every step of its pattern and is about to fire step 0 again
C5_Witness ==
    \E i \in Threads :
        /\ Len(steps[i]) > 0
        /\ Fired(i) = Len(steps[i])
        /\ tpc[i] = "exec_speed"
        /\ cursor[i] = 0

\* C6: the autopilot calls made by one loop are set_speed, set_steering of
\* steps[0], then of steps[1], ..., wrapping after the last step: the j-th
\* pair of calls carries the values of step (j-1) mod N.
C6_PatternOrder ==
    \A i \in Threads :
        \A j \in 1..Len(calls[i]) :
            calls[i][j] =
                CallsOfStep(steps[i][(((j - 1) \div 2) % Len(steps[i])) + 1])[((j - 1) % 2) + 1]

\* in 'beat' mode, after iterations that did not fire, a loop has dispatched a
\* whole pass of a two-step pattern and the first step again
C6_Witness ==
    \E i \in Threads :
        /\ pattern_timing = "beat"
        /\ Len(steps[i]) = 2
        /\ Len(calls[i]) = 6
        /\ calls[i][5] = calls[i][1]
        /\ calls[i][3] # calls[i][1]

\* C7: a loop over an empty step list never calls the autopilot, never reads
\* a step, and stays in its idle cycle until a stop() call.
C7_EmptyPatternIdles ==
    \A i \in Threads :
        (tpc[i] \notin {"unborn", "start"} /\ Len(steps[i]) = 0) =>
            /\ calls[i] = << >>
            /\ tpc[i] \in {"check", "body", "sleep", "done"}
            /\ tpc[i] = "done" => stops > 0

\* a loop over an empty step list is in its second idle sleep or a later one
C7_Witness ==
    \E i \in Threads :
        /\ Len(steps[i]) = 0
        /\ tpc[i] = "sleep"
        /\ twake[i] > SAFETY_SLEEP + IDLE_SLEEP
        /\ stops = 0

\* C8: a set_speed or set_steering call that raises does not end the loop
\* thread.
C8_DispatchFailureAbsorbed == \A i \in Threads : tpc[i] # "crashed"

\* C9: no loop thread other than the synchronizer's current one is inside
\* _execute_step while the current one is still alive.
C9_SingleDispatcher ==
    \A i \in Threads :
        InExecuteStep(i) /\ i # sync_thread => ~ThreadAlive(sync_thread)

\* C10: once a stop() call has returned the instance is never active again and
\* no loop thread dispatches a command.
C10_StoppedIsTerminal ==
    stopped => ~active /\ \A i \in Threads : ~InExecuteStep(i)

\* C11: while development.simulation_only is true or absent, whatever --mode
\* was requested, the autopilot is never started, no loop thread is created
\* and no set_speed or set_steering call is made; the session that runs is the
\* simulation session.
C11_SafetyToggleForcesSimulation ==
    config \in {"true", "absent"} =>
        /\ ~ap_active
        /\ \A i \in Threads : tpc[i] = "unborn" /\ calls[i] = << >>
        /\ mpc \in {"m_with", "in_session"} => mode = "simulation"
        /\ cpc \in {"idle", "sim_sleep", "st_active", "st_event", "st_check"}

\* drift was requested with the toggle absent and the simulation loop is in
\* its second round or a later one
C11_Witness ==
    /\ config = "absent"
    /\ requested = "drift"
    /\ cpc = "sim_sleep"
    /\ now >= SIM_UPDATE

\* C12: on an active autopilot the stored speed is within 0..max_speed and the
\* stored steering within -1..1, whatever values were commanded.
C12_CommandsClamped ==
    ap_active =>
        /\ 0 <= current_speed /\ current_speed <= DEFAULT_MAX_SPEED
        /\ -10 <= current_steering /\ current_steering <= 10

\* C13: the with statement exits the synchronizer, then the audio processor,
\* then the autopilot, each after the one before has returned; once main() has
\* ended after entering the with block all three have been stopped, and no
\* loop thread dispatches a command after the synchronizer's stop() returned.
C13_TeardownOrder ==
    /\ \A k \in 1..Len(teardown) :
           teardown[k] = << "synchronizer", "audio", "autopilot" >>[k]
    /\ Len(teardown) >= 2 => ~active /\ stop_event
    /\ (mpc = "exited" /\ config # "no_file" /\ path_exists(pattern_path)) =>
           /\ teardown = << "synchronizer", "audio", "autopilot" >>
           /\ ~active /\ stop_event
           /\ ~playing
           /\ ~ap_active
    /\ \A i \in Threads : late[i] = 0

\* a session ended by an exception in the session function, torn down in full
C13_Witness ==
    /\ mpc = "exited"
    /\ raised = "Exception"
    /\ ap_active = FALSE
    /\ teardown = << "synchronizer", "audio", "autopilot" >>

\* C14: after Ctrl-C during a session no loop thread dispatches a command once
\* stop() has returned, and when main() has ended the loop condition is false,
\* no thread is past it, the audio processor and the autopilot are stopped
\* with speed and steering at zero, and the exit status is 0.
C14_InterruptStopsCleanly ==
    interrupted =>
        /\ \A i \in Threads : late[i] = 0
        /\ mpc = "exited" =>
              /\ exit_code = 0
              /\ ~LoopCondition
              /\ \A i \in Threads : tpc[i] \notin {"body", "exec_speed", "exec_steer"}
              /\ ~playing
              /\ ~ap_active /\ current_speed = 0 /\ current_steering = 0
              /\ teardown = << "synchronizer", "audio", "autopilot" >>

\* a drift session that had dispatched a step was interrupted and main() ended
C14_Witness ==
    /\ interrupted
    /\ mpc = "exited"
    /\ mode = "drift"
    /\ \E i \in Threads : Fired(i) > 0

\* pattern files that exist and are malformed: not YAML, a mapping without
\* `steps`, not a mapping
Malformed(path) == path \in {"garbled.yaml", "nosteps.yaml", "list.yaml"}

\* C15: with a malformed pattern file no document is stored, no session
\* starts (no component started, no loop of any session running) and no
\* command is dispatched.
C15_MalformedPatternRejected ==
    Malformed(pattern_path) =>
        /\ current_pattern = NoPattern
        /\ ~ap_active /\ ~playing /\ ~active
        /\ \A i \in Threads : tpc[i] = "unborn" /\ calls[i] = << >>
        /\ cpc \in {"idle", "st_active", "st_event", "st_check"}

\* C16: when main() has ended after the configuration or the pattern failed
\* to load, the exit code is 1.
C16_ExitCodeReportsLoadFailure ==
    (mpc = "exited" /\ (config = "no_file" \/ ~load_pattern_returns(pattern_path)))
        => exit_code = 1

\* C17: with a pattern file that does not exist main() does not end before a
\* session has run on the default pattern.
C17_MissingPatternUsesDefault ==
    (mpc = "exited" /\ config # "no_file" /\ ~path_exists(pattern_path)) =>
        /\ current_pattern = _create_basic_pattern
        /\ teardown # << >>
        /\ exit_code = 0

\* C18: load_pattern on a path that does not exist succeeds (the session goes
\* on to its warning pause) and stores exactly the five default steps:
\* Straight 20.0/0.0/3.0, Left Drift 15.0/-0.7/2.0, Recover 18.0/0.3/1.5,
\* Right Drift 15.0/0.7/2.0, Recover 18.0/-0.3/1.5.
C18_DefaultPattern ==
    ~path_exists(pattern_path) =>
        /\ cpc \in {"ds_sleep", "sl_active", "sl_clear", "sl_spawn", "sl_join"}
              => current_pattern # NoPattern
        /\ current_pattern # NoPattern =>
              current_pattern.steps =
                << [name |-> "Straight", speed |-> [type |-> "float", val |-> 200],
                    steering |-> 0, duration |-> 30],
                   [name |-> "Left Drift", speed |-> [type |-> "float", val |-> 150],
                    steering |-> -7, duration |-> 20],
                   [name |-> "Recover", speed |-> [type |-> "float", val |-> 180],
                    steering |-> 3, duration |-> 15],
                   [name |-> "Right Drift", speed |-> [type |-> "float", val |-> 150],
                    steering |-> 7, duration |-> 20],
                   [name |-> "Recover", speed |-> [type |-> "float", val |-> 180],
                    steering |-> -3, duration |-> 15] >>

\* a loop runs on the pattern loaded from a path that does not exist
C18_Witness ==
    /\ ~path_exists(pattern_path)
    /\ \E i \in Threads : Len(steps[i]) = 5 /\ Fired(i) > 0

\* C19: every step of the loaded pattern has a duration above 0 and a steering
\* value within -1..1.
C19_LoadedStepsValid ==
    \A k \in 1..Len(get_steps(current_pattern)) :
        /\ get_steps(current_pattern)[k].duration > 0
        /\ get_steps(current_pattern)[k].steering >= -10
        /\ get_steps(current_pattern)[k].steering <= 10

\* the beat clock has a tempo and is playing
ClockActive == current_bpm # 0 /\ playing

\* C20: in 'beat' mode with steps to run, an iteration made while the beat
\* clock is inactive samples phase 0 and fires; an iteration made while it is
\* active fires exactly when the sampled phase is below the window.
C20_InactiveClockFiresEveryIteration ==
    [][\A i \in Threads :
          (/\ tpc[i] = "body"
           /\ tpc'[i] # "body"
           /\ pattern_timing = "beat"
           /\ ~NoSteps(steps[i])) =>
              IF ~ClockActive
              THEN /\ get_current_beat_phase(now, current_bpm, playing) = 0
                   /\ tpc'[i] = "exec_speed"
              ELSE tpc'[i] = "exec_speed" <=>
                      get_current_beat_phase(now, current_bpm, playing) < ON_BEAT_WINDOW
      ]_vars

\* a loop fired twice inside one window while playback was paused, playback
\* has resumed, and the loop now waits for the phase to enter the window
C20_Witness ==
    /\ pattern_timing = "beat"
    /\ double_fire
    /\ ClockActive
    /\ \E i \in Threads : Spinning(i) /\ Fired(i) >= 2

\* C21: every value get_current_beat_phase returns is at least 0 and below 1
\* (1000 thousandths), at every time, with every tempo, playing or not.
C21_PhaseInRange == 0 <= beat_phase /\ beat_phase < 1000

\* a sample taken late in a beat of a playing track
C21_Witness ==
    /\ playing
    /\ current_bpm = 60
    /\ beat_phase >= 900
    /\ now > beat_duration(current_bpm)

\* C22: in 'beat' mode a loop starts dispatching a step only out of an
\* iteration whose sampled phase is below the window; an iteration that samples
\* a phase at or above the window goes back to the loop head with no command
\* issued and the step index unchanged.
C22_BeatDispatchOnlyInWindow ==
    [][\A i \in Threads :
          pattern_timing = "beat" =>
              /\ (tpc'[i] = "exec_speed" /\ tpc[i] # "exec_speed") =>
                    /\ tpc[i] = "body"
                    /\ get_current_beat_phase(now, current_bpm, playing) < ON_BEAT_WINDOW
              /\ (/\ tpc[i] = "body"
                  /\ tpc'[i] # "body"
                  /\ ~NoSteps(steps[i])
                  /\ get_current_beat_phase(now, current_bpm, playing) >= ON_BEAT_WINDOW) =>
                    /\ tpc'[i] = "check"
                    /\ calls'[i] = calls[i]
                    /\ step_index'[i] = step_index[i]
              /\ calls'[i] # calls[i] => InExecuteStep(i)
      ]_vars

\* a loop dispatches its second step with the clock running, after iterations
\* that found the phase outside the window
C22_Witness ==
    /\ pattern_timing = "beat"
    /\ ClockActive
    /\ ~double_fire
    /\ \E i \in Threads : tpc[i] = "exec_steer" /\ Len(calls[i]) = 3

C25_InactiveAutopilotAtRest ==
    (~ap_active /\ cpc = "idle") => (current_speed = 0 /\ current_steering = 0)

\* C24: a loop thread starts an iteration only from the check of the loop
\* condition, and a thread that was running when stop() was called does not
\* start another iteration once that stop() has returned: its next check of
\* the condition ends it.
C24_StopEndsLoop ==
    [][\A i \in Threads :
          /\ (tpc'[i] = "body" /\ tpc[i] # "body") => tpc[i] = "check"
          /\ (tpc[i] = "check" /\ tpc'[i] = "body") => stop_seen[i] = 0
      ]_vars

====
